---- MODULE Spec2Model ----
(***************************************************************************)
(* The asynchronous export-job subsystem of backend/fastapi/routers/       *)
(* export.py: the in-memory job table export_jobs, the submit handler      *)
(* export_documents, the background coroutine process_export, and the      *)
(* readers get_export_job and download_export.                             *)
(*                                                                         *)
(* Every handler and process_export itself is an "async def" without a     *)
(* single await, so each runs to its end on the event loop before any      *)
(* other handler starts.  process_export is split into steps at the places *)
(* where an exception can leave it (query, file write); the variable       *)
(* running holds the coroutine that owns the loop and every handler waits  *)
(* for running = NoTask.                                                   *)
(***************************************************************************)
EXTENDS Integers, Sequences, FiniteSets, Bags, TLC

VARIABLES
    now,          \* reading of datetime.utcnow(), in microseconds
    documents,    \* rows of the documents table (read only)
    export_jobs,  \* export_jobs: Dict[str, ExportJob]
    tasks,        \* bag of the background tasks added by add_task, not started yet
    running,      \* the process_export coroutine on the event loop, or NoTask
    files,        \* files of settings.export_dir, by <<job_id, format>>
    response,     \* what the handler called in the last step returned
    nsub          \* history: number of submissions made

vars == <<now, documents, export_jobs, tasks, running, files, response, nsub>>

(* ------------------------------ bounds -------------------------------- *)
MaxClock == 1
MaxSubmits == 2
MaxDocs == 2

(* --------------------------- Optional[...] ---------------------------- *)
\* Optional[T]: None is the empty set, a present value v is {v}.
None == {}
Some(v) == {v}
The(o) == CHOOSE v \in o : TRUE

(* ----------------------------- documents ------------------------------ *)
\* Row i of the table the jobs of Spec run against: two cases, one upload
\* date per row.
Document(i) == [id |-> i, case_id |-> 1 + (i % 2), upload_date |-> i]

\* The table the jobs of Spec run against.
DocumentTable == { Document(i) : i \in 1..MaxDocs }

\* Every table of at most MaxDocs rows over two cases and two upload dates
\* (so that rows share an upload date): the tables SpecQuery starts from.
DocumentTables ==
    { { [id |-> i, case_id |-> f[i][1], upload_date |-> f[i][2]] : i \in 1..n } :
        f \in [1..MaxDocs -> {1, 2} \X {1, 2}], n \in 0..MaxDocs }

(* ------------------------------ requests ------------------------------ *)
\* The formats process_export has a branch for.
SupportedFormats == {"csv", "json", "xlsx"}

\* The format strings a request is submitted with: format is a plain str.
ReqFormats == SupportedFormats \cup {"pdf"}

ReqCaseIds == {None, Some(0), Some(1)}
ReqDocumentIds == {None, Some(<< >>), Some(<<1, 3>>)}
ReqDates == {None, Some(1), Some(2)}

ExportRequest ==
    [case_id : ReqCaseIds, document_ids : ReqDocumentIds, format : ReqFormats,
     include_metadata : BOOLEAN, date_from : ReqDates, date_to : ReqDates]

\* The requests drawn by Spec, where several jobs are in flight: one format
\* per branch of the serialiser (csv for the text branches, xlsx, and a format
\* no branch handles), the defaults of ExportRequest for the other fields.
Requests ==
    { r \in ExportRequest :
        /\ r.format \in {"csv", "xlsx", "pdf"}
        /\ r.case_id = None /\ r.document_ids = None
        /\ r.date_from = None /\ r.date_to = None
        /\ r.include_metadata }

(* ------------------------------ job ids ------------------------------- *)
\* f"export_{utcnow().strftime('%Y%m%d_%H%M%S_%f')}": the text of the clock
\* reading down to the microsecond, one id per reading.
JobId(t) == <<"export", t>>

JobIds == { JobId(t) : t \in 0..MaxClock }

\* f"/api/export/download/{job_id}"
DownloadUrl(job_id) == <<"/api/export/download", job_id>>

\* f"{job_id}.{format}" under settings.export_dir
FileName(job_id, format) == <<job_id, format>>

(* ---------------------------- dict helpers ---------------------------- *)
Put(f, k, v) == [x \in DOMAIN f \cup {k} |-> IF x = k THEN v ELSE f[x]]

(* ------------------------------ the query ----------------------------- *)
\* "if export_request.case_id:" - Python truth of an Optional[int]
TruthyInt(o) == o # None /\ The(o) # 0

\* "if export_request.document_ids:" - Python truth of an Optional[List[int]]
TruthyList(o) == o # None /\ Len(The(o)) > 0

\* "if export_request.date_from:" - a datetime is always true when present
TruthyDate(o) == o # None

InList(x, s) == \E i \in 1..Len(s) : s[i] = x

\* The WHERE clause assembled in sql_parts.
Where(req, d) ==
    /\ TruthyInt(req.case_id) => d.case_id = The(req.case_id)
    /\ TruthyList(req.document_ids) => InList(d.id, The(req.document_ids))
    /\ TruthyDate(req.date_from) => d.upload_date >= The(req.date_from)
    /\ TruthyDate(req.date_to) => d.upload_date <= The(req.date_to)

Selected(req, docs) == { d \in docs : Where(req, d) }

\* ORDER BY d.upload_date DESC
OrderedDesc(rows) ==
    \A i \in 1..Len(rows) : \A j \in 1..Len(rows) :
        i < j => rows[i].upload_date >= rows[j].upload_date

\* fetchall(): every selected row once, in an order the ORDER BY allows; rows
\* with equal upload_date come in whatever order the database returns them.
FetchAll(req, docs) ==
    LET sel == Selected(req, docs)
        n   == Cardinality(sel)
    IN { rows \in [1..n -> sel] :
            /\ \A i \in 1..n : \A j \in 1..n : i # j => rows[i] # rows[j]
            /\ OrderedDesc(rows) }

(* ---------------------------- serialisers ----------------------------- *)
Ids(rows) == [i \in 1..Len(rows) |-> rows[i].id]

\* 9 core columns, 12 with Metadata, Tags, Hash
Columns(req) == IF req.include_metadata THEN 12 ELSE 9

\* csv: the header row and one data row per fetched row, in query order.
CsvFile(req, rows) ==
    [format |-> "csv", columns |-> Columns(req), ids |-> Ids(rows),
     total_records |-> None, complete |-> TRUE]

\* json: {"export_date", "total_records": len(documents), "documents"}
JsonFile(req, rows) ==
    LET docs == Ids(rows)
    IN [format |-> "json", columns |-> Columns(req), ids |-> docs,
        total_records |-> Some(Len(docs)), complete |-> TRUE]

\* xlsx: DataFrame(data).to_excel(filepath)
XlsxFile(req, rows) ==
    [format |-> "xlsx", columns |-> Columns(req), ids |-> Ids(rows),
     total_records |-> None, complete |-> TRUE]

SerializedFile(req, rows) ==
    IF req.format = "csv" THEN CsvFile(req, rows)
    ELSE IF req.format = "json" THEN JsonFile(req, rows)
    ELSE XlsxFile(req, rows)

\* What open(filepath, 'w') leaves behind when writing raises: the file is
\* there, cut off (its rows, if any, are not modelled).
PartialFile(req) ==
    [format |-> req.format, columns |-> Columns(req), ids |-> << >>,
     total_records |-> None, complete |-> FALSE]

(* ------------------------------ states -------------------------------- *)
NoTask == [pc |-> "idle"]
NoResponse == [op |-> "none"]

Init ==
    /\ now = 0
    /\ documents = DocumentTable
    /\ export_jobs = << >>
    /\ tasks = EmptyBag
    /\ running = NoTask
    /\ files = << >>
    /\ response = NoResponse
    /\ nsub = 0

\* The wall clock moves on.
Tick ==
    /\ now < MaxClock
    /\ now' = now + 1
    /\ response' = NoResponse
    /\ UNCHANGED <<documents, export_jobs, tasks, running, files, nsub>>

(* -------------------------- export_documents -------------------------- *)
\* NewJob with the job marked processing at creation, as when the export is
\* run inside the handler instead of being handed to add_task.
NewJobProcessing(job_id, req, t) ==
    [job_id |-> job_id, status |-> "processing", format |-> req.format,
     created_at |-> t, completed_at |-> None, download_url |-> None,
     total_records |-> 0, error_message |-> None]

\* ExportJob(job_id=..., status="pending", ...)
NewJob(job_id, req, t) ==
    [job_id |-> job_id, status |-> "pending", format |-> req.format,
     created_at |-> t, completed_at |-> None, download_url |-> None,
     total_records |-> 0, error_message |-> None]

\* export_jobs[job_id] = job
StoreJob(jobs, job) == Put(jobs, job.job_id, job)

\* POST /documents
export_documents(req) ==
    LET job_id == JobId(now)
        job    == NewJob(job_id, req, now)
    IN /\ running = NoTask
       /\ export_jobs' = StoreJob(export_jobs, job)
       /\ tasks' = tasks (+) SetToBag({[job_id |-> job_id, req |-> req]})
       /\ response' = [op |-> "submit", job_id |-> job_id, status_code |-> 200,
                       job |-> Some(job), detail |-> ""]
       /\ nsub' = nsub + 1
       /\ UNCHANGED <<now, documents, running, files>>

Submit == nsub < MaxSubmits /\ \E req \in Requests : export_documents(req)

(* --------------------------- process_export --------------------------- *)
\* export_jobs[job_id].status = "processing"
Processing(job) == [job EXCEPT !.status = "processing"]

\* Completed with the download_url assignment left out.
CompletedNoUrl(job, job_id, t, rows) ==
    [job EXCEPT !.status = "completed", !.completed_at = Some(t),
                !.total_records = Len(rows)]

\* status = "completed"; completed_at = utcnow(); download_url = ...;
\* total_records = len(rows)
Completed(job, job_id, t, rows) ==
    [job EXCEPT !.status = "completed", !.completed_at = Some(t),
                !.download_url = Some(DownloadUrl(job_id)),
                !.total_records = Len(rows)]

\* Failed with the error_message assignment left out.
FailedNoMessage(job, e) == [job EXCEPT !.status = "failed"]

\* Failed with the status assignment left out: the job stays processing.
FailedKeepsStatus(job, e) == [job EXCEPT !.error_message = Some(e)]

\* except Exception as e: status = "failed"; error_message = str(e)
Failed(job, e) == [job EXCEPT !.status = "failed", !.error_message = Some(e)]

\* The event loop starts one of the scheduled background tasks; its first
\* statement marks the job as processing.
StartTask(t) ==
    /\ running = NoTask
    /\ BagIn(t, tasks)
    /\ tasks' = tasks (-) SetToBag({t})
    /\ export_jobs' = [export_jobs EXCEPT ![t.job_id] = Processing(@)]
    /\ running' = [pc |-> "query", job_id |-> t.job_id, req |-> t.req,
                   rows |-> << >>, error |-> ""]
    /\ response' = NoResponse
    /\ UNCHANGED <<now, documents, files, nsub>>

Start == \E t \in BagToSet(tasks) : StartTask(t)

\* db.execute(query, params).fetchall() returns the rows.
QueryOk ==
    /\ running.pc = "query"
    /\ \E rows \in FetchAll(running.req, documents) :
          running' = [running EXCEPT !.pc = "write", !.rows = rows]
    /\ response' = NoResponse
    /\ UNCHANGED <<now, documents, export_jobs, tasks, files, nsub>>

\* db.execute raises (the database is away, the statement is refused).
QueryFail ==
    /\ running.pc = "query"
    /\ running' = [running EXCEPT !.pc = "except", !.error = "database error"]
    /\ response' = NoResponse
    /\ UNCHANGED <<now, documents, export_jobs, tasks, files, nsub>>

\* export_dir.mkdir or open(filepath, 'w') raises: nothing is written.
OpenFail ==
    /\ running.pc = "write"
    /\ running' = [running EXCEPT !.pc = "except", !.error = "cannot open file"]
    /\ response' = NoResponse
    /\ UNCHANGED <<now, documents, export_jobs, tasks, files, nsub>>

\* One of the three format branches writes the whole file.
WriteOk ==
    /\ running.pc = "write"
    /\ running.req.format \in SupportedFormats
    /\ files' = Put(files, FileName(running.job_id, running.req.format),
                    SerializedFile(running.req, running.rows))
    /\ running' = [running EXCEPT !.pc = "update"]
    /\ response' = NoResponse
    /\ UNCHANGED <<now, documents, export_jobs, tasks, nsub>>

\* The file is open and writing raises (disk full, a value that cannot be
\* serialised): the file stays as far as it got.
WriteFail ==
    /\ running.pc = "write"
    /\ running.req.format \in SupportedFormats
    /\ files' = Put(files, FileName(running.job_id, running.req.format),
                    PartialFile(running.req))
    /\ running' = [running EXCEPT !.pc = "except", !.error = "write error"]
    /\ response' = NoResponse
    /\ UNCHANGED <<now, documents, export_jobs, tasks, nsub>>

\* import pandas raises ImportError, re-raised as a plain Exception.
XlsxImportError ==
    /\ running.pc = "write"
    /\ running.req.format = "xlsx"
    /\ running' = [running EXCEPT !.pc = "except",
                      !.error = "pandas and openpyxl required for XLSX export"]
    /\ response' = NoResponse
    /\ UNCHANGED <<now, documents, export_jobs, tasks, files, nsub>>

\* No branch of the if/elif chain matches the format: nothing is written.
WriteNothing ==
    /\ running.pc = "write"
    /\ running.req.format \notin SupportedFormats
    /\ running' = [running EXCEPT !.pc = "update"]
    /\ response' = NoResponse
    /\ UNCHANGED <<now, documents, export_jobs, tasks, files, nsub>>

\* The four assignments that close the try block; the coroutine returns.
Complete ==
    /\ running.pc = "update"
    /\ export_jobs' = [export_jobs EXCEPT ![running.job_id] =
                          Completed(@, running.job_id, now, running.rows)]
    /\ running' = NoTask
    /\ response' = NoResponse
    /\ UNCHANGED <<now, documents, tasks, files, nsub>>

\* Fail marking every job that is not completed, as a loop over
\* export_jobs.values() would, instead of export_jobs[job_id] alone.
FailAll ==
    /\ running.pc = "except"
    /\ export_jobs' = [j \in DOMAIN export_jobs |->
                          IF export_jobs[j].status # "completed"
                          THEN Failed(export_jobs[j], running.error)
                          ELSE export_jobs[j]]
    /\ running' = NoTask
    /\ response' = NoResponse
    /\ UNCHANGED <<now, documents, tasks, files, nsub>>

\* The except block; the coroutine returns.
Fail ==
    /\ running.pc = "except"
    /\ export_jobs' = [export_jobs EXCEPT ![running.job_id] = Failed(@, running.error)]
    /\ running' = NoTask
    /\ response' = NoResponse
    /\ UNCHANGED <<now, documents, tasks, files, nsub>>

(* ------------------------------ readers ------------------------------- *)
\* GET /job/{job_id}
JobResponse(jobs, job_id) ==
    IF job_id \notin DOMAIN jobs
    THEN [op |-> "status", job_id |-> job_id, status_code |-> 404,
          job |-> None, detail |-> "Export job not found"]
    ELSE [op |-> "status", job_id |-> job_id, status_code |-> 200,
          job |-> Some(jobs[job_id]), detail |-> ""]

get_export_job(job_id) ==
    /\ running = NoTask
    /\ response' = JobResponse(export_jobs, job_id)
    /\ UNCHANGED <<now, documents, export_jobs, tasks, running, files, nsub>>

\* DownloadResponse with the status test answering 404, the code of the two
\* neighbouring checks, instead of 400.
DownloadResponseNotFound(jobs, fs, job_id) ==
    IF job_id \notin DOMAIN jobs
    THEN [op |-> "download", job_id |-> job_id, status_code |-> 404,
          job |-> None, detail |-> "Export job not found"]
    ELSE IF jobs[job_id].status # "completed"
    THEN [op |-> "download", job_id |-> job_id, status_code |-> 404,
          job |-> None, detail |-> "Export not ready"]
    ELSE IF FileName(job_id, jobs[job_id].format) \notin DOMAIN fs
    THEN [op |-> "download", job_id |-> job_id, status_code |-> 404,
          job |-> None, detail |-> "Export file not found"]
    ELSE [op |-> "download", job_id |-> job_id, status_code |-> 200,
          job |-> None, detail |-> ""]

\* GET /download/{job_id}
DownloadResponse(jobs, fs, job_id) ==
    IF job_id \notin DOMAIN jobs
    THEN [op |-> "download", job_id |-> job_id, status_code |-> 404,
          job |-> None, detail |-> "Export job not found"]
    ELSE IF jobs[job_id].status # "completed"
    THEN [op |-> "download", job_id |-> job_id, status_code |-> 400,
          job |-> None, detail |-> "Export not ready"]
    ELSE IF FileName(job_id, jobs[job_id].format) \notin DOMAIN fs
    THEN [op |-> "download", job_id |-> job_id, status_code |-> 404,
          job |-> None, detail |-> "Export file not found"]
    ELSE [op |-> "download", job_id |-> job_id, status_code |-> 200,
          job |-> None, detail |-> ""]

download_export(job_id) ==
    /\ running = NoTask
    /\ response' = DownloadResponse(export_jobs, files, job_id)
    /\ UNCHANGED <<now, documents, export_jobs, tasks, running, files, nsub>>

GetJob == \E job_id \in JobIds : get_export_job(job_id)

Download == \E job_id \in JobIds : download_export(job_id)

Next ==
    \/ Tick
    \/ Submit
    \/ Start
    \/ QueryOk
    \/ QueryFail
    \/ OpenFail
    \/ WriteOk
    \/ WriteFail
    \/ XlsxImportError
    \/ WriteNothing
    \/ Complete
    \/ Fail
    \/ GetJob
    \/ Download

Spec == Init /\ [][Next]_vars

(* ------------------- one job, every request and table ------------------ *)
InitQuery ==
    /\ now = 0
    /\ documents \in DocumentTables
    /\ export_jobs = << >>
    /\ tasks = EmptyBag
    /\ running = NoTask
    /\ files = << >>
    /\ response = NoResponse
    /\ nsub = 0

SubmitOne == nsub = 0 /\ \E req \in ExportRequest : export_documents(req)

NextQuery ==
    \/ SubmitOne
    \/ Start
    \/ QueryOk
    \/ QueryFail
    \/ OpenFail
    \/ WriteOk
    \/ WriteFail
    \/ XlsxImportError
    \/ WriteNothing
    \/ Complete
    \/ Fail

SpecQuery == InitQuery /\ [][NextQuery]_vars

(* ----------------------- Spec with a fair event loop ------------------- *)
\* The event loop runs every background task it was given, and a coroutine
\* that was started runs on: each blocking call returns or raises.
\* NextJobs is Next without the two readers: get_export_job and
\* download_export assign nothing but the answer they return, so a job's
\* progress is the same with and without them.
NextJobs ==
    \/ Tick
    \/ Submit
    \/ Start
    \/ QueryOk
    \/ QueryFail
    \/ OpenFail
    \/ WriteOk
    \/ WriteFail
    \/ XlsxImportError
    \/ WriteNothing
    \/ Complete
    \/ Fail

FairSpec ==
    /\ Init /\ [][NextJobs]_vars
    /\ WF_vars(Start)
    /\ WF_vars(QueryOk \/ QueryFail)
    /\ WF_vars(OpenFail \/ WriteOk \/ WriteFail \/ XlsxImportError \/ WriteNothing)
    /\ WF_vars(Complete)
    /\ WF_vars(Fail)
(* ============================== claims ================================ *)

\* C1: the status of a job only ever moves pending -> processing ->
\* completed or failed: a record enters the table as pending, and every
\* change of the status of a record is one of these three moves (no move
\* back, no move past processing, no move out of completed or failed).
StatusMoves ==
    {<<"pending", "processing">>, <<"processing", "completed">>,
     <<"processing", "failed">>}

C1_StatusSequence ==
    [][\A j \in DOMAIN export_jobs' :
          IF j \in DOMAIN export_jobs
          THEN \/ export_jobs'[j].status = export_jobs[j].status
               \/ <<export_jobs[j].status, export_jobs'[j].status>> \in StatusMoves
          ELSE export_jobs'[j].status = "pending"]_vars

\* C2: a submit whose format is not csv, json or xlsx is answered with a 4xx
\* code and leaves nothing behind: no record in export_jobs carries such a
\* format and no background task is scheduled for one.
C2_UnsupportedFormatRejected ==
    /\ \A j \in DOMAIN export_jobs : export_jobs[j].format \in SupportedFormats
    /\ \A t \in BagToSet(tasks) : t.req.format \in SupportedFormats
    /\ response.op = "submit" /\ The(response.job).format \notin SupportedFormats
          => response.status_code \in 400..499

\* C3: download answers 404 for a job_id that is not in export_jobs, 400 for
\* a job that is pending, processing or failed, and serves a file (200) only
\* for a completed job.  (response is the answer of the step just taken, so
\* export_jobs is the table the handler read.)
C3_DownloadStatus ==
    response.op = "download" =>
        LET j == response.job_id
        IN /\ j \notin DOMAIN export_jobs => response.status_code = 404
           /\ ( /\ j \in DOMAIN export_jobs
                /\ export_jobs[j].status \in {"pending", "processing", "failed"} )
                 => response.status_code = 400
           /\ response.status_code = 200 =>
                 j \in DOMAIN export_jobs /\ export_jobs[j].status = "completed"

\* C3 witness: a download of a failed job was refused with 400 while another
\* submission is still waiting for its processor.
C3_Witness ==
    /\ response.op = "download"
    /\ response.status_code = 400
    /\ response.job_id \in DOMAIN export_jobs
    /\ export_jobs[response.job_id].status = "failed"
    /\ tasks # EmptyBag

\* C4: submit answers 200 with the pending record (completed_at, download_url
\* and error_message null, total_records 0); when it returns, the record in
\* the table is that pending record and the task of the job is scheduled and
\* not started: the processor has not taken a step for it.
C4_SubmitReturnsPending ==
    response.op = "submit" =>
        LET job == The(response.job)
        IN /\ response.status_code = 200
           /\ job.job_id = response.job_id
           /\ job.status = "pending"
           /\ job.completed_at = None
           /\ job.download_url = None
           /\ job.total_records = 0
           /\ job.error_message = None
           /\ response.job_id \in DOMAIN export_jobs
           /\ export_jobs[response.job_id] = job
           /\ running = NoTask
           /\ \E t \in BagToSet(tasks) :
                 t.job_id = response.job_id /\ t.req.format = job.format

\* C4 witness: the second submission returned its pending record while the
\* job of the first one is already completed.
C4_Witness ==
    /\ response.op = "submit"
    /\ nsub = 2
    /\ The(response.job).status = "pending"
    /\ \E j \in DOMAIN export_jobs : export_jobs[j].status = "completed"

\* C5: completed_at is set exactly when the status is completed or failed.
C5_CompletedAtIffTerminal ==
    \A j \in DOMAIN export_jobs :
        export_jobs[j].completed_at # None
            <=> export_jobs[j].status \in {"completed", "failed"}

\* C6: download_url is set exactly when the status is completed, and it is
\* the path made from the job's own job_id.
C6_DownloadUrlIffCompleted ==
    \A j \in DOMAIN export_jobs :
        /\ export_jobs[j].download_url # None <=> export_jobs[j].status = "completed"
        /\ export_jobs[j].download_url # None =>
              export_jobs[j].download_url = Some(DownloadUrl(export_jobs[j].job_id))

\* C7: error_message is set exactly when the status is failed.
C7_ErrorMessageIffFailed ==
    \A j \in DOMAIN export_jobs :
        export_jobs[j].error_message # None <=> export_jobs[j].status = "failed"

\* C8: total_records is 0 while the job is pending or processing, and for a
\* completed job it is the number of document rows in the job's output file
\* (the rows the query returned, which the serialiser wrote).
C8_TotalRecords ==
    \A j \in DOMAIN export_jobs :
        LET job  == export_jobs[j]
            name == FileName(j, job.format)
        IN /\ job.status \in {"pending", "processing"} => job.total_records = 0
           /\ job.status = "completed" =>
                 /\ name \in DOMAIN files
                 /\ files[name].complete
                 /\ job.total_records = Len(files[name].ids)

\* C9: the rows a job exports are exactly the documents that pass every
\* filter the request gives (a field that is not null): case_id equal,
\* id in document_ids, upload_date within date_from..date_to.
Given(o) == o # None

RequestedDocuments(req, docs) ==
    { d \in docs :
        /\ Given(req.case_id) => d.case_id = The(req.case_id)
        /\ Given(req.document_ids) => InList(d.id, The(req.document_ids))
        /\ Given(req.date_from) => d.upload_date >= The(req.date_from)
        /\ Given(req.date_to) => d.upload_date <= The(req.date_to) }

C9_ExportedSet ==
    running.pc \in {"write", "update"} =>
        { running.rows[i] : i \in 1..Len(running.rows) }
            = RequestedDocuments(running.req, documents)

\* C10: with the table and the filters fixed, the csv file of one run of the
\* query and the json file of any run of it list the same document ids in the
\* same order, both jobs count the rows the query returned, and the json
\* file's total_records is the length of its documents array.
C10_CsvJsonAgree ==
    running.pc \in {"write", "update"} =>
        \A rows \in FetchAll(running.req, documents) :
            LET csv  == CsvFile(running.req, running.rows)
                json == JsonFile(running.req, rows)
            IN /\ csv.ids = json.ids
               /\ Len(running.rows) = Len(rows)
               /\ json.total_records = Some(Len(json.ids))

\* C11: a failed job has no file, whole or cut off, at its output path
\* {job_id}.{format}.
C11_NoFileWhenFailed ==
    \A j \in DOMAIN export_jobs :
        export_jobs[j].status = "failed" =>
            FileName(j, export_jobs[j].format) \notin DOMAIN files

\* C12: a completed job has its whole output file {job_id}.{format} in the
\* export directory, whatever its format, and a download of a completed job
\* is never answered 404.
C12_FileWhenCompleted ==
    /\ \A j \in DOMAIN export_jobs :
          export_jobs[j].status = "completed" =>
              /\ FileName(j, export_jobs[j].format) \in DOMAIN files
              /\ files[FileName(j, export_jobs[j].format)].complete
    /\ ( /\ response.op = "download"
         /\ response.job_id \in DOMAIN export_jobs
         /\ export_jobs[response.job_id].status = "completed" )
          => response.status_code # 404

\* C13: a submit that is answered 200 got a job id that was not in the table:
\* no submit replaces the record of an earlier job (an id that is taken is
\* refused instead).
C13_DistinctJobIds ==
    [][(response'.op = "submit" /\ response'.status_code = 200)
          => response'.job_id \notin DOMAIN export_jobs]_vars

\* C14: an exception raised by the query, by mkdir/open, by the serialiser or
\* by the xlsx import stays inside process_export (the coroutine goes on to
\* its except block), and the except block leaves the job failed with the
\* text of the exception as error_message, changing nothing else: the tasks,
\* the files and the other records stay as they are.
C14_FailureRecorded ==
    [][/\ (running.pc \in {"query", "write"} /\ running' # running) =>
              running'.pc \in {"write", "update", "except"}
       /\ (running.pc = "except" /\ running' # running) =>
              /\ running' = NoTask
              /\ export_jobs'[running.job_id].status = "failed"
              /\ export_jobs'[running.job_id].error_message # None
              /\ export_jobs'[running.job_id].error_message = Some(running.error)
              /\ tasks' = tasks /\ files' = files
              /\ \A k \in DOMAIN export_jobs :
                    k # running.job_id => export_jobs'[k] = export_jobs[k]]_vars

\* C14 witness: an xlsx job has gone through its except block for want of
\* the spreadsheet writer and is failed with that message.
C14_Witness ==
    /\ running = NoTask
    /\ \E j \in DOMAIN export_jobs :
          /\ export_jobs[j].status = "failed"
          /\ export_jobs[j].format = "xlsx"
          /\ export_jobs[j].error_message
                = Some("pandas and openpyxl required for XLSX export")

\* C15: under a fair event loop no job stays pending or processing for
\* ever: a stored record is completed or failed again and again (records are
\* never removed, so this is the same as every pending or processing job
\* becoming completed or failed).
C15_ReachesTerminal ==
    \A j \in JobIds :
        []<>(j \in DOMAIN export_jobs =>
                export_jobs[j].status \in {"completed", "failed"})

\* C15 witness: two jobs with ids of their own were submitted and both have
\* reached a terminal status, one of each kind.
C15_Witness ==
    /\ nsub = 2
    /\ tasks = EmptyBag /\ running = NoTask
    /\ \E j, k \in DOMAIN export_jobs :
          /\ export_jobs[j].status = "completed"
          /\ export_jobs[k].status = "failed"

\* C16: a reader never sees a half-updated record: a record read as
\* completed has completed_at, download_url and total_records set (the
\* requests of Spec carry no filter, so total_records is the size of the
\* table), and a record read as failed has error_message set.
WholeRecord(job) ==
    /\ job.status = "completed" =>
          /\ job.completed_at # None
          /\ job.download_url # None
          /\ job.total_records = Cardinality(documents)
    /\ job.status = "failed" => job.error_message # None

C16_NoTornRead ==
    /\ (response.op = "status" /\ response.status_code = 200)
          => WholeRecord(The(response.job))
    /\ (response.op = "download" /\ response.job_id \in DOMAIN export_jobs)
          => WholeRecord(export_jobs[response.job_id])

\* C16 witness: getStatus returned a completed record right after the
\* processor of the job finished, while another task is still waiting.
C16_Witness ==
    /\ response.op = "status"
    /\ response.status_code = 200
    /\ The(response.job).status = "completed"
    /\ tasks # EmptyBag

\* C17: a step of the processor of job j leaves the set of job ids, the
\* record of every other job and every file but j's output file as they are.
InProcessor == running.pc # "idle" \/ running'.pc # "idle"

ProcessorTask == IF running.pc # "idle" THEN running ELSE running'

C18_RecordsKept ==
    [][/\ \A j \in DOMAIN export_jobs :
             /\ j \in DOMAIN export_jobs'
             /\ export_jobs'[j].job_id = export_jobs[j].job_id
             /\ export_jobs'[j].format = export_jobs[j].format
             /\ export_jobs'[j].created_at = export_jobs[j].created_at
       /\ (response'.op = "status" /\ response'.job_id \in DOMAIN export_jobs)
             => response'.status_code = 200]_vars
====
